---------------------------- MODULE Spec2Model ----------------------------
(***************************************************************************)
(* BibTeX cleaning tools: bib_et_al.py (author collapse),                  *)
(* strip_bib_urls.py (url field removal) and process_bib.py (both passes). *)
(*                                                                         *)
(* A text is a sequence of one-character strings.  Offsets are 0-based as  *)
(* in the Python source: At(s, i) is s[i], Slice(s, a, b) is s[a:b].       *)
(***************************************************************************)
EXTENDS Integers, Sequences, FiniteSets, TLC

(***************************************************************************)
(* Characters and the str methods the scanners use.                        *)
(***************************************************************************)
LowerLetters ==
    {"a","b","c","d","e","f","g","h","i","j","k","l","m",
     "n","o","p","q","r","s","t","u","v","w","x","y","z"}

UpperToLower ==
    ("A" :> "a") @@ ("B" :> "b") @@ ("C" :> "c") @@ ("D" :> "d") @@
    ("E" :> "e") @@ ("F" :> "f") @@ ("G" :> "g") @@ ("H" :> "h") @@
    ("I" :> "i") @@ ("J" :> "j") @@ ("K" :> "k") @@ ("L" :> "l") @@
    ("M" :> "m") @@ ("N" :> "n") @@ ("O" :> "o") @@ ("P" :> "p") @@
    ("Q" :> "q") @@ ("R" :> "r") @@ ("S" :> "s") @@ ("T" :> "t") @@
    ("U" :> "u") @@ ("V" :> "v") @@ ("W" :> "w") @@ ("X" :> "x") @@
    ("Y" :> "y") @@ ("Z" :> "z")

UpperLetters == DOMAIN UpperToLower

Digits == {"0","1","2","3","4","5","6","7","8","9"}

\* str.isalnum() on one character
IsAlnum(c) == c \in LowerLetters \/ c \in UpperLetters \/ c \in Digits

\* str.isspace() on one character (space, tab, LF, CR, form feed)
IsSpace(c) == c \in {" ", "\t", "\n", "\r", "\f"}

\* str.lower() on one character
LowerChar(c) == IF c \in UpperLetters THEN UpperToLower[c] ELSE c

\* str.lower() on a text
Lower(s) == [k \in 1..Len(s) |-> LowerChar(s[k])]

At(s, i) == s[i + 1]

\* s[a:b] with Python's clamping of the bounds
Slice(s, a, b) ==
    LET lo == IF a < 0 THEN 0 ELSE a
        hi == IF b > Len(s) THEN Len(s) ELSE b
    IN  IF lo >= hi THEN << >> ELSE SubSeq(s, lo + 1, hi)

\* s[a:a+len(w)] == w
MatchesAt(s, w, a) ==
    /\ a >= 0
    /\ a + Len(w) <= Len(s)
    /\ \A k \in 1..Len(w) : s[a + k] = w[k]

\* str.find(needle, pos): lowest offset >= pos of an occurrence, else -1
RECURSIVE Find(_, _, _)
Find(s, needle, pos) ==
    IF pos + Len(needle) > Len(s) THEN -1
    ELSE IF MatchesAt(s, needle, pos) THEN pos
    ELSE Find(s, needle, pos + 1)

\* str.rfind(c, 0, index) for a one-character c
RECURSIVE RFindChar(_, _, _)
RFindChar(s, c, index) ==
    IF index <= 0 THEN -1
    ELSE IF At(s, index - 1) = c THEN index - 1
    ELSE RFindChar(s, c, index - 1)

RECURSIVE LStrip(_)
LStrip(s) ==
    IF s # << >> /\ IsSpace(Head(s)) THEN LStrip(Tail(s)) ELSE s

RECURSIVE RStrip(_)
RStrip(s) ==
    IF s # << >> /\ IsSpace(s[Len(s)]) THEN RStrip(SubSeq(s, 1, Len(s) - 1)) ELSE s

\* str.strip()
Strip(s) == RStrip(LStrip(s))

\* the loop  while j < n and s[j].isspace(): j += 1
RECURSIVE SkipSpace(_, _)
SkipSpace(s, j) ==
    IF j < Len(s) /\ IsSpace(At(s, j)) THEN SkipSpace(s, j + 1) ELSE j

Max(a, b) == IF a >= b THEN a ELSE b

(***************************************************************************)
(* bib_et_al.py                                                            *)
(***************************************************************************)
needle == <<"a","u","t","h","o","r">>

\* is_word_boundary(prev_char); "none" stands for None
is_word_boundary(prev_char) ==
    IF prev_char = "none" THEN TRUE
    ELSE ~(IsAlnum(prev_char) \/ prev_char = "_")

\* what find_next_author_field returns; found = FALSE is None.  why names the
\* return statement taken and field_start the candidate it was taken at.
AuthorNone(why, idx) ==
    [found |-> FALSE, why |-> why, field_start |-> idx, value_start |-> -1,
     value_end |-> -1, delimiter |-> "", value |-> << >>]

AuthorFound(content, idx, value_start, value_end, delimiter) ==
    [found |-> TRUE, why |-> "found", field_start |-> idx,
     value_start |-> value_start, value_end |-> value_end,
     delimiter |-> delimiter, value |-> Slice(content, value_start, value_end)]

\* the brace loop of find_next_author_field: offset of the closing brace, else -1
RECURSIVE AuthorBraceEnd(_, _, _)
AuthorBraceEnd(content, k, level) ==
    IF k >= Len(content) THEN -1
    ELSE LET c == At(content, k) IN
         IF c = "{" THEN AuthorBraceEnd(content, k + 1, level + 1)
         ELSE IF c = "}" THEN
              IF level - 1 = 0 THEN k
              ELSE AuthorBraceEnd(content, k + 1, level - 1)
         ELSE AuthorBraceEnd(content, k + 1, level)

\* the quote loop of find_next_author_field: offset of the closing quote, else -1
RECURSIVE AuthorQuoteEnd(_, _, _)
AuthorQuoteEnd(content, k, escaped) ==
    IF k >= Len(content) THEN -1
    ELSE LET c == At(content, k) IN
         IF c = "\"" /\ ~escaped THEN k
         ELSE IF c = "\\" /\ ~escaped THEN AuthorQuoteEnd(content, k + 1, TRUE)
         ELSE AuthorQuoteEnd(content, k + 1, FALSE)

\* find_next_author_field as it would be if an unterminated value were skipped
\* like any other rejected candidate, the search resuming at idx + 1
RECURSIVE FindAuthorRetry(_, _, _)
FindAuthorRetry(content, lower_content, pos) ==
    LET n   == Len(content)
        idx == Find(lower_content, needle, pos)
    IN
    IF idx = -1 THEN AuthorNone("nomatch", n)
    ELSE
    LET prev_char == IF idx = 0 THEN "none" ELSE At(content, idx - 1) IN
    IF ~is_word_boundary(prev_char) THEN FindAuthorRetry(content, lower_content, idx + 1)
    ELSE
    LET j1 == SkipSpace(content, idx + Len(needle)) IN
    IF j1 >= n \/ At(content, j1) # "=" THEN FindAuthorRetry(content, lower_content, idx + 1)
    ELSE
    LET j == SkipSpace(content, j1 + 1) IN
    IF j >= n THEN AuthorNone("novalue", idx)
    ELSE
    LET delimiter == At(content, j) IN
    IF delimiter \notin {"{", "\""} THEN FindAuthorRetry(content, lower_content, idx + 1)
    ELSE
    LET value_start == j + 1
        value_end   == IF delimiter = "{"
                       THEN AuthorBraceEnd(content, value_start, 1)
                       ELSE AuthorQuoteEnd(content, value_start, FALSE)
    IN
    IF value_end = -1 THEN FindAuthorRetry(content, lower_content, idx + 1)
    ELSE AuthorFound(content, idx, value_start, value_end, delimiter)

RECURSIVE FindAuthorFrom(_, _, _)
FindAuthorFrom(content, lower_content, pos) ==
    LET n   == Len(content)
        idx == Find(lower_content, needle, pos)
    IN
    IF idx = -1 THEN AuthorNone("nomatch", n)
    ELSE
    LET prev_char == IF idx = 0 THEN "none" ELSE At(content, idx - 1) IN
    IF ~is_word_boundary(prev_char) THEN FindAuthorFrom(content, lower_content, idx + 1)
    ELSE
    LET j1 == SkipSpace(content, idx + Len(needle)) IN
    IF j1 >= n \/ At(content, j1) # "=" THEN FindAuthorFrom(content, lower_content, idx + 1)
    ELSE
    LET j == SkipSpace(content, j1 + 1) IN
    IF j >= n THEN AuthorNone("novalue", idx)
    ELSE
    LET delimiter == At(content, j) IN
    IF delimiter \notin {"{", "\""} THEN FindAuthorFrom(content, lower_content, idx + 1)
    ELSE
    LET value_start == j + 1
        value_end   == IF delimiter = "{"
                       THEN AuthorBraceEnd(content, value_start, 1)
                       ELSE AuthorQuoteEnd(content, value_start, FALSE)
    IN
    IF value_end = -1 THEN AuthorNone("unterminated", idx)
    ELSE AuthorFound(content, idx, value_start, value_end, delimiter)

find_next_author_field(content, start_index) ==
    FindAuthorFrom(content, Lower(content), start_index)

kwAnd == <<"a","n","d">>

\* matches_and_at(index) inside split_authors_top_level
matches_and_at(s, index) ==
    LET length == Len(s) IN
    IF index + 3 > length THEN 0
    ELSE IF Lower(Slice(s, index, index + 3)) # kwAnd THEN 0
    ELSE
    LET prev_ok == (index = 0) \/ IsSpace(At(s, index - 1))
        next_ok == (index + 3 >= length) \/ IsSpace(At(s, index + 3))
    IN  IF prev_ok /\ next_ok THEN 3 ELSE 0

\* split_authors_top_level as it would be without the brace-depth counter
RECURSIVE SplitLoopFlat(_, _, _, _, _, _)
SplitLoopFlat(s, i, level, buffer, authors, cuts) ==
    IF i >= Len(s) THEN
        LET tail == Strip(buffer) IN
        [authors |-> IF tail # << >> THEN Append(authors, tail) ELSE authors,
         cuts |-> cuts]
    ELSE
    LET c == At(s, i)
        m == matches_and_at(s, i)
    IN
    IF m # 0 THEN
        LET author == Strip(buffer) IN
        SplitLoopFlat(s, SkipSpace(s, i + m), level, << >>,
                      IF author # << >> THEN Append(authors, author) ELSE authors,
                      Append(cuts, i))
    ELSE SplitLoopFlat(s, i + 1, level, Append(buffer, c), authors, cuts)

\* the while loop of split_authors_top_level, with its tail flush.  cuts lists
\* the offsets at which the keyword was matched.
RECURSIVE SplitLoop(_, _, _, _, _, _)
SplitLoop(s, i, level, buffer, authors, cuts) ==
    IF i >= Len(s) THEN
        LET tail == Strip(buffer) IN
        [authors |-> IF tail # << >> THEN Append(authors, tail) ELSE authors,
         cuts |-> cuts]
    ELSE
    LET c == At(s, i) IN
    IF c = "{" THEN SplitLoop(s, i + 1, level + 1, Append(buffer, c), authors, cuts)
    ELSE IF c = "}" THEN
        SplitLoop(s, i + 1, Max(0, level - 1), Append(buffer, c), authors, cuts)
    ELSE
    LET m == IF level = 0 THEN matches_and_at(s, i) ELSE 0 IN
    IF m # 0 THEN
        LET author == Strip(buffer) IN
        SplitLoop(s, SkipSpace(s, i + m), level, << >>,
                  IF author # << >> THEN Append(authors, author) ELSE authors,
                  Append(cuts, i))
    ELSE SplitLoop(s, i + 1, level, Append(buffer, c), authors, cuts)

split_authors_top_level(author_value) ==
    SplitLoop(author_value, 0, 0, << >>, << >>, << >>).authors

kwOthers == <<"o","t","h","e","r","s">>

IsWordChar(c) == IsAlnum(c) \/ c = "_"

\* the regular expression \band\s+others\b (IGNORECASE) matched at offset p
AndOthersAt(v, p) ==
    /\ MatchesAt(Lower(v), kwAnd, p)
    /\ (p = 0 \/ ~IsWordChar(At(v, p - 1)))
    /\ LET q == SkipSpace(v, p + 3) IN
       /\ q > p + 3
       /\ MatchesAt(Lower(v), kwOthers, q)
       /\ (q + 6 >= Len(v) \/ ~IsWordChar(At(v, q + 6)))

\* author_already_others: re.search over the whole value
author_already_others(author_value) ==
    \E p \in 0..(Len(author_value) - 1) : AndOthersAt(author_value, p)

\* the threshold in  len(authors) <= 6
MaxKeptAuthors == 6

AndOthersSuffix == <<" ">> \o kwAnd \o <<" ">> \o kwOthers

\* transform_author_value_if_needed with the threshold one too high
TransformAboveSeven(author_value) ==
    IF author_already_others(author_value) THEN [some |-> FALSE, val |-> << >>]
    ELSE
    LET authors == split_authors_top_level(author_value) IN
    IF Len(authors) <= MaxKeptAuthors + 1 THEN [some |-> FALSE, val |-> << >>]
    ELSE [some |-> TRUE, val |-> Strip(authors[1]) \o AndOthersSuffix]

\* transform_author_value_if_needed with < in place of <=
TransformFromSix(author_value) ==
    IF author_already_others(author_value) THEN [some |-> FALSE, val |-> << >>]
    ELSE
    LET authors == split_authors_top_level(author_value) IN
    IF Len(authors) < MaxKeptAuthors THEN [some |-> FALSE, val |-> << >>]
    ELSE [some |-> TRUE, val |-> Strip(authors[1]) \o AndOthersSuffix]

\* transform_author_value_if_needed writing "et al." for "and others"
TransformEtAl(author_value) ==
    IF author_already_others(author_value) THEN [some |-> FALSE, val |-> << >>]
    ELSE
    LET authors == split_authors_top_level(author_value) IN
    IF Len(authors) <= MaxKeptAuthors THEN [some |-> FALSE, val |-> << >>]
    ELSE [some |-> TRUE, val |-> Strip(authors[1]) \o <<" ","e","t"," ","a","l",".">>]

\* transform_author_value_if_needed; some = FALSE is None
transform_author_value_if_needed(author_value) ==
    IF author_already_others(author_value) THEN [some |-> FALSE, val |-> << >>]
    ELSE
    LET authors == split_authors_top_level(author_value) IN
    IF Len(authors) <= MaxKeptAuthors THEN [some |-> FALSE, val |-> << >>]
    ELSE
    LET first_author == Strip(authors[1]) IN
    IF first_author = << >> THEN [some |-> FALSE, val |-> << >>]
    ELSE [some |-> TRUE, val |-> first_author \o AndOthersSuffix]


\* the locals of process_bibtex before its loop; pieces is kept joined.
\* log lists what find_next_author_field returned, call by call.
ProcessStart ==
    [i |-> 0, cursor |-> 0, pieces |-> << >>, modified_count |-> 0,
     running |-> TRUE, log |-> << >>]

\* the loop iteration as it would be if the search resumed at the field found
ProcessIterStall(content, st) ==
    LET found == find_next_author_field(content, st.i) IN
    IF ~found.found THEN
        [st EXCEPT !.running = FALSE, !.log = Append(@, found)]
    ELSE
        [st EXCEPT !.i = found.field_start, !.log = Append(@, found)]

\* one iteration of the  while True  loop of process_bibtex
ProcessIter(content, st) ==
    LET found == find_next_author_field(content, st.i) IN
    IF ~found.found THEN
        [st EXCEPT !.running = FALSE, !.log = Append(@, found)]
    ELSE
    LET replacement_value == transform_author_value_if_needed(found.value) IN
    IF ~replacement_value.some THEN
        [st EXCEPT !.i = found.value_end + 1, !.log = Append(@, found)]
    ELSE
        [st EXCEPT !.pieces = @ \o Slice(content, st.cursor, found.value_start)
                                \o replacement_value.val,
                   !.cursor = found.value_end,
                   !.i = found.value_end + 1,
                   !.modified_count = @ + 1,
                   !.log = Append(@, found)]

\* the statements of process_bibtex after its loop
ProcessFinish(content, st) ==
    [new_content |-> st.pieces \o Slice(content, st.cursor, Len(content)),
     modified_count |-> st.modified_count]

RECURSIVE ProcessRun(_, _)
ProcessRun(content, st) ==
    IF st.running THEN ProcessRun(content, ProcessIter(content, st)) ELSE st

process_bibtex(content) == ProcessFinish(content, ProcessRun(content, ProcessStart))

(***************************************************************************)
(* strip_bib_urls.py                                                       *)
(***************************************************************************)
kwUrl == <<"u","r","l">>

\* find_matching_brace: offset of the matching brace, else -1 (None)
RECURSIVE MatchingBraceFrom(_, _, _)
MatchingBraceFrom(text, i, depth) ==
    IF i >= Len(text) THEN -1
    ELSE LET c == At(text, i) IN
         IF c = "{" THEN MatchingBraceFrom(text, i + 1, depth + 1)
         ELSE IF c = "}" THEN
              IF depth - 1 = 0 THEN i
              ELSE MatchingBraceFrom(text, i + 1, depth - 1)
         ELSE MatchingBraceFrom(text, i + 1, depth)

find_matching_brace(text, open_index) == MatchingBraceFrom(text, open_index + 1, 1)

\* find_matching_quote: offset of the closing quote, else -1 (None)
RECURSIVE MatchingQuoteFrom(_, _, _)
MatchingQuoteFrom(text, i, escaped) ==
    IF i >= Len(text) THEN -1
    ELSE LET c == At(text, i) IN
         IF c = "\"" /\ ~escaped THEN i
         ELSE IF c = "\\" /\ ~escaped THEN MatchingQuoteFrom(text, i + 1, TRUE)
         ELSE MatchingQuoteFrom(text, i + 1, FALSE)

find_matching_quote(text, open_index) == MatchingQuoteFrom(text, open_index + 1, FALSE)

\* the bare-value loop as it would be if every quote closed the quotes
RECURSIVE BareValueEndAnyQuote(_, _, _, _, _)
BareValueEndAnyQuote(text, i, brace_depth, in_quote, escaped) ==
    IF i >= Len(text) THEN Len(text)
    ELSE LET c == At(text, i) IN
    IF in_quote THEN
        BareValueEndAnyQuote(text, i + 1, brace_depth, c # "\"", FALSE)
    ELSE IF c = "\"" THEN BareValueEndAnyQuote(text, i + 1, brace_depth, TRUE, FALSE)
    ELSE IF c = "{" THEN
        BareValueEndAnyQuote(text, i + 1, brace_depth + 1, in_quote, escaped)
    ELSE IF c = "}" THEN
        IF brace_depth = 0 THEN i
        ELSE BareValueEndAnyQuote(text, i + 1, brace_depth - 1, in_quote, escaped)
    ELSE IF brace_depth = 0 /\ c = "," THEN i
    ELSE BareValueEndAnyQuote(text, i + 1, brace_depth, in_quote, escaped)

\* the bare-value loop of find_value_end
RECURSIVE BareValueEnd(_, _, _, _, _)
BareValueEnd(text, i, brace_depth, in_quote, escaped) ==
    IF i >= Len(text) THEN Len(text)
    ELSE LET c == At(text, i) IN
    IF in_quote THEN
        BareValueEnd(text, i + 1, brace_depth,
                     IF c = "\"" /\ ~escaped THEN FALSE ELSE TRUE,
                     c = "\\" /\ ~escaped)
    ELSE IF c = "\"" THEN BareValueEnd(text, i + 1, brace_depth, TRUE, FALSE)
    ELSE IF c = "{" THEN BareValueEnd(text, i + 1, brace_depth + 1, in_quote, escaped)
    ELSE IF c = "}" THEN
        IF brace_depth = 0 THEN i
        ELSE BareValueEnd(text, i + 1, brace_depth - 1, in_quote, escaped)
    ELSE IF brace_depth = 0 /\ c = "," THEN i
    ELSE BareValueEnd(text, i + 1, brace_depth, in_quote, escaped)

\* find_value_end: offset just after the value, -1 for None
find_value_end(text, start) ==
    IF At(text, start) = "{" THEN
        LET match == find_matching_brace(text, start) IN
        IF match # -1 THEN match + 1 ELSE -1
    ELSE IF At(text, start) = "\"" THEN
        LET match == find_matching_quote(text, start) IN
        IF match # -1 THEN match + 1 ELSE -1
    ELSE BareValueEnd(text, start, 0, FALSE, FALSE)

\* is_field_name as it would be without the look at the character after
IsFieldNameBeforeOnly(text, index, length) ==
    ~(/\ index > 0
      /\ LET before == At(text, index - 1) IN
         IsAlnum(before) \/ before = "_" \/ before = "\\")

\* is_field_name
is_field_name(text, index, length) ==
    LET before_bad ==
            /\ index > 0
            /\ LET before == At(text, index - 1) IN
               IsAlnum(before) \/ before = "_" \/ before = "\\"
        after_index == index + length
        after_bad ==
            /\ after_index < Len(text)
            /\ LET after == At(text, after_index) IN IsAlnum(after) \/ after = "_"
    IN  ~before_bad /\ ~after_bad

\* consume_linebreak
consume_linebreak(text, pos) ==
    LET n == Len(text) IN
    IF pos < n /\ At(text, pos) = "\r" THEN
        IF pos + 1 < n /\ At(text, pos + 1) = "\n" THEN pos + 2 ELSE pos + 1
    ELSE IF pos < n /\ At(text, pos) = "\n" THEN pos + 1
    ELSE pos

\* find_line_start
find_line_start(text, index) ==
    LET newline    == RFindChar(text, "\n", index)
        carriage   == RFindChar(text, "\r", index)
        line_break == Max(newline, carriage)
    IN  IF line_break >= 0 THEN line_break + 1 ELSE 0

\* compute_field_start as it would be if it went back to the line start
\* whatever precedes the name on the line
FieldStartAtLine(text, field_index) == find_line_start(text, field_index)

\* compute_field_start as it would be without the look back to the line start
FieldStartAtName(text, field_index) == field_index

\* compute_field_start
compute_field_start(text, field_index) ==
    LET line_start == find_line_start(text, field_index) IN
    IF Strip(Slice(text, line_start, field_index)) # << >> THEN field_index
    ELSE line_start

\* the loop  while end < n and text[end] in ' \t': end += 1
RECURSIVE SkipBlank(_, _)
SkipBlank(text, end) ==
    IF end < Len(text) /\ At(text, end) \in {" ", "\t"} THEN SkipBlank(text, end + 1)
    ELSE end

\* what compute_field_bounds returns; some = FALSE is None.  why names the
\* return statement taken.
BoundsNone(why) == [some |-> FALSE, why |-> why, start |-> -1, end |-> -1]

\* compute_field_bounds
compute_field_bounds(text, field_index) ==
    IF ~is_field_name(text, field_index, 3) THEN BoundsNone("name")
    ELSE
    LET n  == Len(text)
        j1 == SkipSpace(text, field_index + 3)
    IN
    IF j1 >= n \/ At(text, j1) # "=" THEN BoundsNone("equals")
    ELSE
    LET j == SkipSpace(text, j1 + 1) IN
    IF j >= n THEN BoundsNone("novalue")
    ELSE
    LET value_start == j
        value_end   == find_value_end(text, value_start)
    IN
    IF value_end = -1 THEN BoundsNone("unterminated")
    ELSE
    LET end1 == SkipBlank(text, value_end)
        end  == IF end1 < n /\ At(text, end1) = ","
                THEN consume_linebreak(text, SkipBlank(text, end1 + 1))
                ELSE consume_linebreak(text, end1)
    IN  [some |-> TRUE, why |-> "found",
         start |-> compute_field_start(text, field_index), end |-> end]

\* the locals of locate_url_field_ranges before its loop.  log lists the
\* candidates examined with what compute_field_bounds returned for each.
LocateStart == [idx |-> 0, ranges |-> << >>, running |-> TRUE, log |-> << >>]

\* the loop iteration as it would be if an unterminated value ended the search
LocateIterAbandon(text, st) ==
    IF ~(st.idx < Len(text)) THEN [st EXCEPT !.running = FALSE]
    ELSE
    LET candidate == Find(Lower(text), kwUrl, st.idx) IN
    IF candidate = -1 THEN [st EXCEPT !.running = FALSE]
    ELSE
    LET bounds == compute_field_bounds(text, candidate)
        entry  == [candidate |-> candidate, why |-> bounds.why,
                   start |-> bounds.start, end |-> bounds.end]
    IN
    IF bounds.why = "unterminated" THEN
        [st EXCEPT !.running = FALSE, !.log = Append(@, entry)]
    ELSE IF ~bounds.some THEN
        [st EXCEPT !.idx = candidate + 1, !.log = Append(@, entry)]
    ELSE
        [st EXCEPT !.ranges = Append(@, <<bounds.start, bounds.end>>),
                   !.idx = bounds.end,
                   !.log = Append(@, entry)]

\* one iteration of the  while idx < length  loop of locate_url_field_ranges
LocateIter(text, st) ==
    IF ~(st.idx < Len(text)) THEN [st EXCEPT !.running = FALSE]
    ELSE
    LET candidate == Find(Lower(text), kwUrl, st.idx) IN
    IF candidate = -1 THEN [st EXCEPT !.running = FALSE]
    ELSE
    LET bounds == compute_field_bounds(text, candidate)
        entry  == [candidate |-> candidate, why |-> bounds.why,
                   start |-> bounds.start, end |-> bounds.end]
    IN
    IF ~bounds.some THEN
        [st EXCEPT !.idx = candidate + 1, !.log = Append(@, entry)]
    ELSE
        [st EXCEPT !.ranges = Append(@, <<bounds.start, bounds.end>>),
                   !.idx = bounds.end,
                   !.log = Append(@, entry)]

RECURSIVE LocateRun(_, _)
LocateRun(text, st) ==
    IF st.running THEN LocateRun(text, LocateIter(text, st)) ELSE st

locate_url_field_ranges(text) == LocateRun(text, LocateStart).ranges

\* the  for start, end in ranges  loop of strip_url_fields
RECURSIVE StripLoop(_, _, _, _, _)
StripLoop(content, ranges, k, pieces, cursor) ==
    IF k > Len(ranges) THEN pieces \o Slice(content, cursor, Len(content))
    ELSE
    LET start == ranges[k][1]
        end   == ranges[k][2]
    IN  IF start < cursor THEN StripLoop(content, ranges, k + 1, pieces, cursor)
        ELSE StripLoop(content, ranges, k + 1,
                       pieces \o Slice(content, cursor, start), end)

\* strip_url_fields, given the ranges locate_url_field_ranges returned
StripWith(content, ranges) ==
    IF ranges = << >> THEN [text |-> content, removed |-> 0]
    ELSE [text |-> StripLoop(content, ranges, 1, << >>, 0), removed |-> Len(ranges)]

strip_url_fields(content) == StripWith(content, locate_url_field_ranges(content))

\* clean_bib_content
clean_bib_content(content) ==
    LET s == strip_url_fields(content)
        p == process_bibtex(s.text)
    IN  [text |-> p.new_content, urls_removed |-> s.removed,
         authors_modified |-> p.modified_count]

(***************************************************************************)
(* Input files.  Every text below is a file the tools can be given; the    *)
(* sets are built from field names, values, separators and surroundings.   *)
(***************************************************************************)
\* the longest author list generated
MaxNames == 8

\* the largest number of url fields generated one after the other
MaxUrlFields == 2

RECURSIVE NameList(_, _, _)
NameList(first, sep, k) ==
    IF k <= 1 THEN first ELSE NameList(first, sep, k - 1) \o sep \o <<"b">>

RECURSIVE Repeat(_, _)
Repeat(s, k) == IF k <= 0 THEN << >> ELSE s \o Repeat(s, k - 1)

NameCounts == {1} \cup ((MaxNames - 3)..MaxNames)

FirstNames ==
    { <<"a">>,
      <<" ","A","."," ","x">>,
      <<"{","a"," ","a","n","d"," ","b","}">>,
      <<"a","\\">>,
      <<"}","a">> }

Separators ==
    { <<" ","a","n","d"," ">>,
      <<" ","A","N","D","\n">>,
      <<"\t","a","n","d"," "," ">> }

ListTails ==
    { << >>,
      <<" ","a","n","d"," ","o","t","h","e","r","s">>,
      <<" ","A","n","d"," ","\t"," ","O","T","H","E","R","S">>,
      <<" ","a","n","d"," ","o","t","h","e","r","s","s">>,
      <<"_","a","n","d"," ","o","t","h","e","r","s">> }

OddValues ==
    { << >>,
      <<"a","n","d">>,
      <<"a","n","d"," ","a","n","d">>,
      <<"{","S","m","i","t","h"," ","a","n","d"," ","J","o","n","e","s","}"," ","a","n","d"," ","L","e","e">>,
      <<"a"," ","a","n","d"," ","b","}"," ","a","n","d"," ","{","c">>,
      <<"a","n","d"," ","o","t","h","e","r","s">> }

AuthorValues ==
    { NameList(f, <<" ","a","n","d"," ">>, k) \o t :
        f \in FirstNames, k \in NameCounts, t \in ListTails }
    \cup
    { NameList(<<"a">>, sep, k) \o t :
        sep \in Separators, k \in NameCounts, t \in ListTails }
    \cup OddValues

\* <<text up to and including the opening delimiter, closing delimiter>>
AuthorWraps ==
    { <<<<"a","u","t","h","o","r"," ","="," ","{">>, <<"}">>>>,
      <<<<"A","u","t","h","o","r","=","\"">>, <<"\"">>>>,
      <<<<" "," ","A","U","T","H","O","R","\t","=","\n","{">>, <<"}">>>> }

AuthorFields == { w[1] \o v \o w[2] : w \in AuthorWraps, v \in AuthorValues }

LongList == NameList(<<"a">>, <<" ","a","n","d"," ">>, MaxKeptAuthors + 1)

\* <<text before the field, text after it>>
AuthorSurroundings ==
    { << << >>, << >> >>,
      <<<<"@","a","{","k",",","\n"," "," ">>, <<",","\n","}","\n">>>>,
      <<<<"x">>, << >> >>,
      <<<<"a","u","t","h","o","r"," ","="," ","m","a","c"," ","#"," ","a","u","t","h","o","r","_">>, << >> >>,
      <<<<"a","u","t","h","o","r","=","{">> \o LongList \o <<"}">>, <<","," ">>>>,
      << << >>, <<",","\n","a","u","t","h","o","r"," ","="," ","\"">> \o LongList \o <<"\"">> >>,
      << << >>, <<" ","a","u","t","h","o","r"," ","="," ","{","{">> \o LongList >>,
      << << >>, <<" ","a","u","t","h","o","r"," ","="," ","\"">> \o LongList \o <<"\\","\"">> >>,
      << << >>, <<" ","a","u","t","h","o","r"," ","="," ">> >>,
      <<<<"a","u","t","h","o","r","=","{","{"," ">>, << >> >> }

EtAlInputs ==
    { s[1] \o f \o s[2] : s \in AuthorSurroundings, f \in AuthorFields }

UrlHeads ==
    { <<"u","r","l","=">>,
      <<"U","R","L"," ","="," ">>,
      <<"u","r","l","\n","=","\t">> }

UrlValues ==
    { <<"{","y","}">>,
      <<"\"","y","\"">>,
      <<"y">>,
      <<"{","a",",","{","b","}","}">>,
      <<"\"","a","\\","\"","b","\"">>,
      <<"\"","{","\"">>,
      <<"y","{",",","}","\"","z">>,
      <<"y","\"","\\","\"",",",",","\"">>,
      <<"{","y">>,
      <<"\"","y","\\","\"">>,
      << >> }

UrlTrailers ==
    { << >>,
      <<",">>,
      <<","," ">>,
      <<" ",",","\t","\n">>,
      <<"\n">>,
      <<"\r","\n">>,
      <<",","\r">>,
      <<",","\n","\n">>,
      <<",","\n","\t">>,
      <<"}">> }

UrlFields == { h \o v \o t : h \in UrlHeads, v \in UrlValues, t \in UrlTrailers }

\* <<text before the fields, text after them>>
UrlSurroundings ==
    { <<<< >>, << >>>>,
      <<<<" "," ">>, <<"x">>>>,
      <<<<"t","i","t","l","e","=","{","x","}",","," ">>, <<"y","e","a","r","=","{","2","0","2","0","}">>>>,
      <<<<"\n","\t">>, <<"\n">>>>,
      <<<<"x">>, << >>>>,
      <<<<"\\">>, << >>>>,
      <<<<"_">>, << >>>>,
      <<<<"u","r","l"," ">>, <<"=","b">>>>,
      <<<<"u","r","l","=","{"," ">>, <<" ","}">>>>,
      <<<<"a","\r">>, <<"u","r","l","_","=","c">>>>,
      <<<<"U","r","l","s","=","1",",">>, << >>>>,
      <<<< >>, <<"}","\n">>>> }

StripInputs ==
    { s[1] \o Repeat(f, k) \o s[2] :
        s \in UrlSurroundings, f \in UrlFields, k \in 1..MaxUrlFields }
    \cup { <<" "," ","u","r","l"," ","="," ","{","h","t","t","p","s",":","/","/","x",".","c","o","m","}",",","\n">>,
      <<"t","i","t","l","e","=","{","x","}",","," ","u","r","l","=","{","y","}",","," ","y","e","a","r","=","{","2","0","2","0","}">> }

\* bibliography entries with an author field and a url field, in either order
EntryAuthors ==
    { w[1] \o NameList(f, <<" ","a","n","d"," ">>, k) \o w[2] :
        w \in AuthorWraps, f \in FirstNames, k \in (MaxNames - 3)..MaxNames }

EntryUrls ==
    { <<"u","r","l"," ","="," ","{","y","}">>,
      <<"u","r","l","=","\"","y","\"">>,
      <<"U","R","L"," ","="," ","y">>,
      <<"n","o","t","e"," ","="," ","{","x","}">>,
      <<"u","r","l"," ","="," ","{","y">> }

EntryLineEnds ==
    { <<"\n">>,
      <<"\r","\n"," "," ">> }

Entry(lines, eol) ==
    <<"@","a","{","k",",">> \o eol \o lines[1] \o <<",">> \o eol \o lines[2] \o eol \o <<"}">> \o eol

BibInputs ==
    { Entry(<<a, u>>, eol) : a \in EntryAuthors, u \in EntryUrls, eol \in EntryLineEnds }
    \cup
    { Entry(<<u, a>>, eol) : a \in EntryAuthors, u \in EntryUrls, eol \in EntryLineEnds }

(***************************************************************************)
(* The three command-line tools as state machines.  prog is the script     *)
(* run, pc the position in its main(), disk the text of the input file,    *)
(* writes the write_text calls made so far.                                *)
(***************************************************************************)
VARIABLES prog, dry_run, disk, pc, content, loc, without_urls, urls_removed,
          proc, new_content, authors_modified, writes, stdout, stderr, rc

vars == <<prog, dry_run, disk, pc, content, loc, without_urls, urls_removed,
          proc, new_content, authors_modified, writes, stdout, stderr, rc>>

InitLocals ==
    /\ pc = "start"
    /\ content = << >>
    /\ loc = LocateStart
    /\ without_urls = << >>
    /\ urls_removed = 0
    /\ proc = ProcessStart
    /\ new_content = << >>
    /\ authors_modified = 0
    /\ writes = << >>
    /\ stdout = << >>
    /\ stderr = << >>
    /\ rc = -1

\* a line printed, or a text written, to stdout or stderr
Message(kind, text, a, b) == [kind |-> kind, text |-> text, a |-> a, b |-> b]

\* a write_text call: the file it names, the text passed, whether it returned
WriteCall(target, text, ok) == [target |-> target, text |-> text, ok |-> ok]

\* clean_bib_content as it would be if the second pass were given the file's
\* text in place of the first pass's result
ProcessInputRaw == content

\* the text process_bibtex is called on
ProcessInput == IF prog = "process_bib" THEN without_urls ELSE content

\* locate_url_field_ranges, one loop iteration at a time
UrlIter ==
    /\ pc = "locate"
    /\ loc.running
    /\ loc' = LocateIter(content, loc)
    /\ UNCHANGED <<prog, dry_run, disk, pc, content, without_urls, urls_removed,
                   proc, new_content, authors_modified, writes, stdout, stderr, rc>>

\* strip_url_fields once locate_url_field_ranges has returned
UrlAssemble ==
    /\ pc = "locate"
    /\ ~loc.running
    /\ LET r == StripWith(content, loc.ranges) IN
       /\ without_urls' = r.text
       /\ urls_removed' = r.removed
       /\ new_content' = IF prog = "strip_bib_urls" THEN r.text ELSE new_content
    /\ pc' = IF prog = "strip_bib_urls" THEN "persist" ELSE "process"
    /\ UNCHANGED <<prog, dry_run, disk, content, loc, proc, authors_modified,
                   writes, stdout, stderr, rc>>

\* process_bibtex, one loop iteration at a time
AuthorIter ==
    /\ pc = "process"
    /\ proc.running
    /\ proc' = ProcessIter(ProcessInput, proc)
    /\ UNCHANGED <<prog, dry_run, disk, pc, content, loc, without_urls, urls_removed,
                   new_content, authors_modified, writes, stdout, stderr, rc>>

\* process_bibtex after its loop
AuthorFinish ==
    /\ pc = "process"
    /\ ~proc.running
    /\ LET r == ProcessFinish(ProcessInput, proc) IN
       /\ new_content' = r.new_content
       /\ authors_modified' = r.modified_count
    /\ pc' = "persist"
    /\ UNCHANGED <<prog, dry_run, disk, content, loc, without_urls, urls_removed,
                   proc, writes, stdout, stderr, rc>>

\* bib_et_al.main ---------------------------------------------------------
EtAlNotFound ==
    /\ prog = "bib_et_al" /\ pc = "start"
    /\ stderr' = Append(stderr, Message("not found", << >>, 0, 0))
    /\ rc' = 2
    /\ pc' = "done"
    /\ UNCHANGED <<prog, dry_run, disk, content, loc, without_urls, urls_removed,
                   proc, new_content, authors_modified, writes, stdout>>

EtAlReadError ==
    /\ prog = "bib_et_al" /\ pc = "start"
    /\ stderr' = Append(stderr, Message("read error", << >>, 0, 0))
    /\ rc' = 2
    /\ pc' = "done"
    /\ UNCHANGED <<prog, dry_run, disk, content, loc, without_urls, urls_removed,
                   proc, new_content, authors_modified, writes, stdout>>

EtAlRead ==
    /\ prog = "bib_et_al" /\ pc = "start"
    /\ content' = disk
    /\ pc' = "process"
    /\ UNCHANGED <<prog, dry_run, disk, loc, without_urls, urls_removed, proc,
                   new_content, authors_modified, writes, stdout, stderr, rc>>

EtAlWrite ==
    /\ prog = "bib_et_al" /\ pc = "persist"
    /\ writes' = Append(writes, WriteCall("output", new_content, TRUE))
    /\ stdout' = stdout \o <<Message("wrote", << >>, 0, 0),
                             Message("modified", << >>, authors_modified, 0)>>
    /\ rc' = 0
    /\ pc' = "done"
    /\ UNCHANGED <<prog, dry_run, disk, content, loc, without_urls, urls_removed,
                   proc, new_content, authors_modified, stderr>>

EtAlWriteError ==
    /\ prog = "bib_et_al" /\ pc = "persist"
    /\ writes' = Append(writes, WriteCall("output", new_content, FALSE))
    /\ stderr' = Append(stderr, Message("write error", << >>, 0, 0))
    /\ rc' = 2
    /\ pc' = "done"
    /\ UNCHANGED <<prog, dry_run, disk, content, loc, without_urls, urls_removed,
                   proc, new_content, authors_modified, stdout>>

\* strip_bib_urls.main ----------------------------------------------------
StripReadError ==
    /\ prog = "strip_bib_urls" /\ pc = "start"
    /\ stderr' = Append(stderr, Message("read error", << >>, 0, 0))
    /\ rc' = 1
    /\ pc' = "done"
    /\ UNCHANGED <<prog, dry_run, disk, content, loc, without_urls, urls_removed,
                   proc, new_content, authors_modified, writes, stdout>>

StripRead ==
    /\ prog = "strip_bib_urls" /\ pc = "start"
    /\ content' = disk
    /\ pc' = "locate"
    /\ UNCHANGED <<prog, dry_run, disk, loc, without_urls, urls_removed, proc,
                   new_content, authors_modified, writes, stdout, stderr, rc>>

\* the summary strip_bib_urls.main prints unless --quiet
StripSummary(quiet) ==
    IF quiet THEN << >> ELSE <<Message("removed", << >>, urls_removed, 0)>>

\* -i / -o: the target is the input file or the named output file
StripWrite(target, quiet) ==
    /\ prog = "strip_bib_urls" /\ pc = "persist"
    /\ writes' = Append(writes, WriteCall(target, new_content, TRUE))
    /\ disk' = IF target = "input" THEN new_content ELSE disk
    /\ stderr' = stderr \o StripSummary(quiet)
    /\ rc' = 0
    /\ pc' = "done"
    /\ UNCHANGED <<prog, dry_run, content, loc, without_urls, urls_removed,
                   proc, new_content, authors_modified, stdout>>

StripWriteError(target) ==
    /\ prog = "strip_bib_urls" /\ pc = "persist"
    /\ writes' = Append(writes, WriteCall(target, new_content, FALSE))
    /\ stderr' = Append(stderr, Message("write error", << >>, 0, 0))
    /\ rc' = 1
    /\ pc' = "done"
    /\ UNCHANGED <<prog, dry_run, disk, content, loc, without_urls, urls_removed,
                   proc, new_content, authors_modified, stdout>>

\* neither -i nor -o
StripStdout(quiet) ==
    /\ prog = "strip_bib_urls" /\ pc = "persist"
    /\ stdout' = Append(stdout, Message("text", new_content, 0, 0))
    /\ stderr' = stderr \o StripSummary(quiet)
    /\ rc' = 0
    /\ pc' = "done"
    /\ UNCHANGED <<prog, dry_run, disk, content, loc, without_urls, urls_removed,
                   proc, new_content, authors_modified, writes>>

\* process_bib.main -------------------------------------------------------
BibSummary == Message("summary", << >>, urls_removed, authors_modified)

BibReadError ==
    /\ prog = "process_bib" /\ pc = "start"
    /\ stderr' = Append(stderr, Message("read error", << >>, 0, 0))
    /\ rc' = 1
    /\ pc' = "done"
    /\ UNCHANGED <<prog, dry_run, disk, content, loc, without_urls, urls_removed,
                   proc, new_content, authors_modified, writes, stdout>>

BibRead ==
    /\ prog = "process_bib" /\ pc = "start"
    /\ content' = disk
    /\ pc' = "locate"
    /\ UNCHANGED <<prog, dry_run, disk, loc, without_urls, urls_removed, proc,
                   new_content, authors_modified, writes, stdout, stderr, rc>>

\* the --dry-run branch as it would be if it fell through to the write
BibDryRunThenWrite ==
    /\ prog = "process_bib" /\ pc = "persist"
    /\ dry_run
    /\ stdout' = stdout \o <<Message("text", new_content, 0, 0), BibSummary>>
    /\ writes' = Append(writes, WriteCall("input", new_content, TRUE))
    /\ disk' = new_content
    /\ rc' = 0
    /\ pc' = "done"
    /\ UNCHANGED <<prog, dry_run, content, loc, without_urls, urls_removed,
                   proc, new_content, authors_modified, stderr>>

BibDryRun ==
    /\ prog = "process_bib" /\ pc = "persist"
    /\ dry_run
    /\ stdout' = stdout \o <<Message("text", new_content, 0, 0), BibSummary>>
    /\ rc' = 0
    /\ pc' = "done"
    /\ UNCHANGED <<prog, dry_run, disk, content, loc, without_urls, urls_removed,
                   proc, new_content, authors_modified, writes, stderr>>

BibNoChanges ==
    /\ prog = "process_bib" /\ pc = "persist"
    /\ ~dry_run
    /\ urls_removed + authors_modified = 0
    /\ stdout' = stdout \o <<Message("no changes", << >>, 0, 0), BibSummary>>
    /\ rc' = 0
    /\ pc' = "done"
    /\ UNCHANGED <<prog, dry_run, disk, content, loc, without_urls, urls_removed,
                   proc, new_content, authors_modified, writes, stderr>>

BibWrite ==
    /\ prog = "process_bib" /\ pc = "persist"
    /\ ~dry_run
    /\ urls_removed + authors_modified # 0
    /\ writes' = Append(writes, WriteCall("input", new_content, TRUE))
    /\ disk' = new_content
    /\ stdout' = Append(stdout, BibSummary)
    /\ rc' = 0
    /\ pc' = "done"
    /\ UNCHANGED <<prog, dry_run, content, loc, without_urls, urls_removed,
                   proc, new_content, authors_modified, stderr>>

BibWriteError ==
    /\ prog = "process_bib" /\ pc = "persist"
    /\ ~dry_run
    /\ urls_removed + authors_modified # 0
    /\ writes' = Append(writes, WriteCall("input", new_content, FALSE))
    /\ stderr' = Append(stderr, Message("write error", << >>, 0, 0))
    /\ rc' = 1
    /\ pc' = "done"
    /\ UNCHANGED <<prog, dry_run, disk, content, loc, without_urls, urls_removed,
                   proc, new_content, authors_modified, stdout>>

\* python3 bib_et_al.py INPUT
InitEtAl ==
    /\ prog = "bib_et_al"
    /\ dry_run = FALSE
    /\ disk \in EtAlInputs
    /\ InitLocals

NextEtAl ==
    \/ EtAlNotFound
    \/ EtAlReadError
    \/ EtAlRead
    \/ AuthorIter
    \/ AuthorFinish
    \/ EtAlWrite
    \/ EtAlWriteError

SpecEtAl == InitEtAl /\ [][NextEtAl]_vars

\* python3 strip_bib_urls.py [-i | -o OUTPUT] [--quiet] INPUT
InitStrip ==
    /\ prog = "strip_bib_urls"
    /\ dry_run = FALSE
    /\ disk \in StripInputs
    /\ InitLocals

NextStrip ==
    \/ StripReadError
    \/ StripRead
    \/ UrlIter
    \/ UrlAssemble
    \/ \E target \in {"input", "output"}, quiet \in BOOLEAN : StripWrite(target, quiet)
    \/ \E target \in {"input", "output"} : StripWriteError(target)
    \/ \E quiet \in BOOLEAN : StripStdout(quiet)

SpecStrip == InitStrip /\ [][NextStrip]_vars

\* python3 process_bib.py [--dry-run] INPUT
Init ==
    /\ prog = "process_bib"
    /\ dry_run \in BOOLEAN
    /\ disk \in BibInputs
    /\ InitLocals

Next ==
    \/ BibReadError
    \/ BibRead
    \/ UrlIter
    \/ UrlAssemble
    \/ AuthorIter
    \/ AuthorFinish
    \/ BibDryRun
    \/ BibNoChanges
    \/ BibWrite
    \/ BibWriteError

Spec == Init /\ [][Next]_vars

(***************************************************************************)
(* Properties of the author-collapse pass (bib_et_al.py), checked under    *)
(* SpecEtAl.                                                               *)
(***************************************************************************)
\* process_bibtex has returned
EtAlReturned == prog = "bib_et_al" /\ pc = "persist"

\* the fields find_next_author_field returned during the pass, in order
FoundFields(log) == SelectSeq(log, LAMBDA e : e.found)

\* no whole-word "and others" and more than six top-level items
Qualifies(value) ==
    /\ ~author_already_others(value)
    /\ Len(split_authors_top_level(value)) > 6

FirstItemAndOthers(value) ==
    Strip(split_authors_top_level(value)[1]) \o <<" ","a","n","d"," ","o","t","h","e","r","s">>

\* text with the characters at offsets a..b-1 replaced by r
Replaced(text, a, b, r) ==
    SubSeq(text, 1, a) \o r \o SubSeq(text, b + 1, Len(text))

\* the text with the value of every qualifying field among the first k
\* replaced, the rightmost first so that the offsets to its left stay valid
RECURSIVE Collapsed(_, _, _)
Collapsed(text, fields, k) ==
    IF k = 0 THEN text
    ELSE LET e == fields[k] IN
         Collapsed(IF Qualifies(e.value)
                   THEN Replaced(text, e.value_start, e.value_end,
                                 FirstItemAndOthers(e.value))
                   ELSE text,
                   fields, k - 1)

QualifyingCount(fields) ==
    Cardinality({k \in 1..Len(fields) : Qualifies(fields[k].value)})

\* C1: when process_bibtex has returned, its output is the input with, for
\* every located author field whose value has no whole-word "and others" and
\* more than six top-level items, exactly the characters between the two
\* delimiters replaced by the trimmed first item followed by " and others";
\* the delimiters stay in place and the count is the number of such fields.
C1_CollapseRewritesValue ==
    EtAlReturned =>
        LET fields == FoundFields(proc.log) IN
        /\ \A k \in 1..Len(fields) :
              /\ At(content, fields[k].value_start - 1) = fields[k].delimiter
              /\ At(content, fields[k].value_end) =
                    (IF fields[k].delimiter = "{" THEN "}" ELSE "\"")
        /\ new_content = Collapsed(content, fields, Len(fields))
        /\ authors_modified = QualifyingCount(fields)

\* two fields were located, a brace-delimited and a quote-delimited one, and
\* both were rewritten
C1_Witness ==
    /\ EtAlReturned
    /\ authors_modified = 2
    /\ \E e \in {proc.log[k] : k \in 1..Len(proc.log)} :
          e.found /\ e.delimiter = "\"" /\ Qualifies(e.value)
    /\ \E e \in {proc.log[k] : k \in 1..Len(proc.log)} :
          e.found /\ e.delimiter = "{" /\ Qualifies(e.value)

\* C2: when every located author field value splits into at most six
\* top-level items, process_bibtex returns its input unchanged and a count
\* of 0.
C2_ShortListsUntouched ==
    EtAlReturned =>
        LET fields == FoundFields(proc.log) IN
        (\A k \in 1..Len(fields) :
              Len(split_authors_top_level(fields[k].value)) <= 6)
        => (new_content = content /\ authors_modified = 0)

\* a field with exactly six names was located and left alone
C2_Witness ==
    /\ EtAlReturned
    /\ LET fields == FoundFields(proc.log) IN
       /\ \A k \in 1..Len(fields) :
             Len(split_authors_top_level(fields[k].value)) <= 6
       /\ \E k \in 1..Len(fields) :
             Len(split_authors_top_level(fields[k].value)) = 6
    /\ new_content = content

\* C3: process_bibtex applied to its own output returns that output and a
\* count of 0: the second pass locates as many fields as the first, and each
\* value the first pass rewrote is found again as rewritten and matches
\* author_already_others.
C3_CollapseIdempotent ==
    EtAlReturned =>
        LET first  == FoundFields(proc.log)
            second == FoundFields(ProcessRun(new_content, ProcessStart).log)
        IN
        /\ process_bibtex(new_content) =
              [new_content |-> new_content, modified_count |-> 0]
        /\ Len(second) = Len(first)
        /\ \A k \in 1..Len(first) :
              IF Qualifies(first[k].value)
              THEN /\ second[k].value = FirstItemAndOthers(first[k].value)
                   /\ author_already_others(second[k].value)
              ELSE second[k].value = first[k].value

\* the first pass rewrote a field
C3_Witness ==
    /\ EtAlReturned
    /\ authors_modified >= 1
    /\ new_content # content

\* brace depth, floored at 0, in front of offset p of s
RECURSIVE DepthBefore(_, _)
DepthBefore(s, p) ==
    IF p <= 0 THEN 0
    ELSE LET d == DepthBefore(s, p - 1)
             c == At(s, p - 1)
         IN  IF c = "{" THEN d + 1
             ELSE IF c = "}" THEN (IF d > 0 THEN d - 1 ELSE 0)
             ELSE d

\* the stretches of s between the keyword occurrences at cuts, each trimmed,
\* the empty ones left out
RECURSIVE ItemsBetween(_, _, _, _)
ItemsBetween(s, cuts, k, from) ==
    LET to   == IF k > Len(cuts) THEN Len(s) ELSE cuts[k]
        item == Strip(Slice(s, from, to))
        rest == IF k > Len(cuts) THEN << >>
                ELSE ItemsBetween(s, cuts, k + 1, cuts[k] + 3)
    IN  IF item # << >> THEN <<item>> \o rest ELSE rest

SmithJonesLee == <<"{","S","m","i","t","h"," ","a","n","d"," ","J","o","n","e","s","}"," ","a","n","d"," ","L","e","e">>

SplitOk(s) ==
    LET r == SplitLoop(s, 0, 0, << >>, << >>, << >>)
        authors == split_authors_top_level(s)
    IN
    /\ \A k \in 1..Len(r.cuts) :
          LET p == r.cuts[k] IN
          /\ Lower(Slice(s, p, p + 3)) = kwAnd
          /\ p = 0 \/ IsSpace(At(s, p - 1))
          /\ p + 3 = Len(s) \/ IsSpace(At(s, p + 3))
          /\ DepthBefore(s, p) = 0
          /\ k > 1 => r.cuts[k - 1] + 3 <= p
    /\ \A k \in 1..Len(authors) :
          /\ authors[k] # << >>
          /\ ~IsSpace(authors[k][1])
          /\ ~IsSpace(authors[k][Len(authors[k])])
    /\ authors = ItemsBetween(s, r.cuts, 1, 0)
    /\ s = SmithJonesLee =>
          authors = <<<<"{","S","m","i","t","h"," ","a","n","d"," ","J","o","n","e","s","}">>, <<"L","e","e">>>>

\* C4: for every located author value, split_authors_top_level cuts only at
\* an "and" (any case) with whitespace or an end of the value on both sides
\* and brace depth 0 in front of it; the items are the stretches between the
\* cuts in their order, trimmed and non-empty; "{Smith and Jones} and Lee"
\* gives the two items "{Smith and Jones}" and "Lee".
C4_SplitTopLevelOnly ==
    EtAlReturned =>
        \A k \in 1..Len(proc.log) : proc.log[k].found => SplitOk(proc.log[k].value)

\* the value "{Smith and Jones} and Lee" was located and split
C4_Witness ==
    /\ EtAlReturned
    /\ \E k \in 1..Len(proc.log) :
          /\ proc.log[k].found
          /\ proc.log[k].value = SmithJonesLee
          /\ Len(split_authors_top_level(proc.log[k].value)) = 2

\* offset idx holds the name of an author field (word boundary, "=", an
\* opening brace or quote) whose value has no closing delimiter
UnterminatedAuthorAt(text, idx) ==
    /\ MatchesAt(Lower(text), needle, idx)
    /\ idx = 0 \/ ~IsWordChar(At(text, idx - 1))
    /\ LET j1 == SkipSpace(text, idx + 6) IN
       /\ j1 < Len(text)
       /\ At(text, j1) = "="
       /\ LET j == SkipSpace(text, j1 + 1) IN
          /\ j < Len(text)
          /\ \/ At(text, j) = "{" /\ AuthorBraceEnd(text, j + 1, 1) = -1
             \/ At(text, j) = "\"" /\ AuthorQuoteEnd(text, j + 1, FALSE) = -1

\* the search arrives at offset idx: no located field reaches over it
SearchMeets(fields, idx) ==
    \A k \in 1..Len(fields) :
        fields[k].field_start < idx => fields[k].value_end < idx

\* C10: when find_next_author_field meets an author field with an
\* unterminated value the pass ends there without an error: no field is
\* located after it, the text from that field's name to the end is copied
\* unchanged, and what precedes it is rewritten as it would be on its own,
\* with the same count.
C10_UnterminatedEndsPass ==
    EtAlReturned =>
        LET fields == FoundFields(proc.log)
            n      == Len(content)
            out_n  == Len(new_content)
        IN
        \A idx \in 0..(n - 1) :
            (UnterminatedAuthorAt(content, idx) /\ SearchMeets(fields, idx)) =>
                LET head == process_bibtex(Slice(content, 0, idx)) IN
                /\ \A k \in 1..Len(fields) : fields[k].field_start < idx
                /\ out_n >= n - idx
                /\ Slice(new_content, out_n - (n - idx), out_n) = Slice(content, idx, n)
                /\ Slice(new_content, 0, out_n - (n - idx)) = head.new_content
                /\ authors_modified = head.modified_count
                /\ rc = -1

\* the pass ended at an author field whose value is unterminated
EndedUnterminated ==
    /\ EtAlReturned
    /\ LET last == proc.log[Len(proc.log)] IN
       /\ last.why = "unterminated"
       /\ UnterminatedAuthorAt(content, last.field_start)
       /\ SearchMeets(FoundFields(proc.log), last.field_start)

\* a field was rewritten before the unterminated one was met
C10_Witness ==
    /\ EndedUnterminated
    /\ authors_modified >= 1
    /\ Len(proc.log) >= 2

(***************************************************************************)
(* Properties of the url remover (strip_bib_urls.py), checked under        *)
(* SpecStrip.                                                              *)
(***************************************************************************)
\* strip_url_fields has returned
StripReturned == prog = "strip_bib_urls" /\ pc = "persist"

\* the candidates for which compute_field_bounds returned a span
Removed(log) == SelectSeq(log, LAMBDA e : e.why = "found")

\* the offset of the first character of the line holding offset c
LineStartOf(text, c) ==
    CHOOSE p \in 0..c :
        /\ p = 0 \/ At(text, p - 1) \in {"\n", "\r"}
        /\ \A k \in p..(c - 1) : At(text, k) \notin {"\n", "\r"}

\* the offset after the spaces and tabs that start at p
BlanksEnd(text, p) ==
    CHOOSE q \in p..Len(text) :
        /\ \A k \in p..(q - 1) : At(text, k) \in {" ", "\t"}
        /\ q = Len(text) \/ At(text, q) \notin {" ", "\t"}

\* the length of the line break at p: CRLF, CR, LF or none
LineBreakLen(text, p) ==
    IF MatchesAt(text, <<"\r", "\n">>, p) THEN 2
    ELSE IF MatchesAt(text, <<"\r">>, p) \/ MatchesAt(text, <<"\n">>, p) THEN 1
    ELSE 0

\* where the value of the url field named at c ends
UrlValueEnd(text, c) ==
    find_value_end(text, SkipSpace(text, SkipSpace(text, c + 3) + 1))

\* the span of the claim for the url field named at c
LineAwareSpan(text, c) ==
    LET ls    == LineStartOf(text, c)
        a     == BlanksEnd(text, UrlValueEnd(text, c))
        b     == IF a < Len(text) /\ At(text, a) = "," THEN BlanksEnd(text, a + 1) ELSE a
    IN  <<IF \A k \in ls..(c - 1) : IsSpace(At(text, k)) THEN ls ELSE c,
          b + LineBreakLen(text, b)>>

\* text without the characters at the offsets the spans cover
RECURSIVE Uncovered(_, _, _)
Uncovered(text, spans, i) ==
    IF i >= Len(text) THEN << >>
    ELSE (IF \E k \in 1..Len(spans) : spans[k][1] <= i /\ i < spans[k][2]
          THEN << >> ELSE <<At(text, i)>>)
         \o Uncovered(text, spans, i + 1)

SoleLineExample == <<" "," ","u","r","l"," ","="," ","{","h","t","t","p","s",":","/","/","x",".","c","o","m","}",",","\n">>

MidLineExample == <<"t","i","t","l","e","=","{","x","}",","," ","u","r","l","=","{","y","}",","," ","y","e","a","r","=","{","2","0","2","0","}">>

\* C5: the span deleted for a url field starts at the start of its line when
\* only whitespace precedes the name on that line and at the name otherwise;
\* it ends after the value, the spaces/tabs and the comma that may follow it,
\* the spaces/tabs after that comma and at most one line break.  The output
\* is the input without the spans.  A line holding only "url = {...}," goes
\* whole; in 'title={x}, url={y}, year={2020}' only 'url={y}, ' goes.
C5_LineAwareSpan ==
    StripReturned =>
        LET removed == Removed(loc.log) IN
        /\ \A k \in 1..Len(removed) :
              <<removed[k].start, removed[k].end>> =
                  LineAwareSpan(content, removed[k].candidate)
        /\ loc.ranges = [k \in 1..Len(removed) |-> <<removed[k].start, removed[k].end>>]
        /\ new_content = Uncovered(content, loc.ranges, 0)
        /\ content = SoleLineExample => new_content = << >>
        /\ content = MidLineExample => new_content = <<"t","i","t","l","e","=","{","x","}",","," ","y","e","a","r","=","{","2","0","2","0","}">>

\* an indented url field that has its line to itself was removed with its
\* indentation and its line break
C5_Witness ==
    /\ StripReturned
    /\ \E k \in 1..Len(loc.log) :
          LET e == loc.log[k] IN
          /\ e.why = "found"
          /\ e.start < e.candidate
          /\ At(content, e.end - 1) = "\n"
          /\ e.start > 0

\* C6: strip_url_fields applied to its own output returns it unchanged with
\* a count of 0 (no url field is left in the output).
C6_StripRemovesAll ==
    StripReturned =>
        strip_url_fields(new_content) = [text |-> new_content, removed |-> 0]

\* offset c holds the name of a url field (name boundaries, "=", an opening
\* brace or quote) whose value has no closing delimiter
UnterminatedUrlAt(text, c) ==
    /\ MatchesAt(Lower(text), kwUrl, c)
    /\ is_field_name(text, c, 3)
    /\ LET j1 == SkipSpace(text, c + 3) IN
       /\ j1 < Len(text)
       /\ At(text, j1) = "="
       /\ LET j == SkipSpace(text, j1 + 1) IN
          /\ j < Len(text)
          /\ \/ At(text, j) = "{" /\ find_matching_brace(text, j) = -1
             \/ At(text, j) = "\"" /\ find_matching_quote(text, j) = -1

\* the search examined the candidate at offset c
Examined(log, c) == \E k \in 1..Len(log) : log[k].candidate = c

\* C8 as claimed: once the search has examined a url field whose value is
\* unterminated, no url field at a later offset is returned.
C8_UnterminatedAbandons ==
    StripReturned =>
        \A c \in 0..(Len(content) - 1) :
            (UnterminatedUrlAt(content, c) /\ Examined(loc.log, c)) =>
                \A k \in 1..Len(loc.log) :
                    loc.log[k].why = "found" => loc.log[k].candidate < c

\* C8 as the code has it: a url field whose value is unterminated is skipped
\* alone.  It is not removed, the search resumes at the offset after the first
\* character of its name, and every later "url" for which compute_field_bounds
\* returns a span is removed, as that span or inside a returned one.
C8_UnterminatedSkipsField ==
    StripReturned =>
        \A c \in 0..(Len(content) - 1) :
            (UnterminatedUrlAt(content, c) /\ Examined(loc.log, c)) =>
                /\ \A k \in 1..Len(loc.log) :
                      loc.log[k].candidate = c =>
                          /\ loc.log[k].why = "unterminated"
                          /\ LET next == Find(Lower(content), kwUrl, c + 1) IN
                             IF next = -1 THEN k = Len(loc.log)
                             ELSE /\ k < Len(loc.log)
                                  /\ loc.log[k + 1].candidate = next
                /\ \A k \in 1..Len(loc.ranges) :
                      ~(loc.ranges[k][1] <= c /\ c < loc.ranges[k][2])
                /\ \A f \in (c + 1)..(Len(content) - 1) :
                      (MatchesAt(Lower(content), kwUrl, f)
                         /\ compute_field_bounds(content, f).some) =>
                          \E k \in 1..Len(loc.log) :
                              /\ loc.log[k].why = "found"
                              /\ loc.log[k].candidate <= f
                              /\ f < loc.log[k].end

\* an unterminated url field was examined and a url field after it removed
C8_Witness ==
    /\ StripReturned
    /\ \E i, k \in 1..Len(loc.log) :
          /\ i < k
          /\ loc.log[i].why = "unterminated"
          /\ UnterminatedUrlAt(content, loc.log[i].candidate)
          /\ loc.log[k].why = "found"

(***************************************************************************)
(* Properties of the combined tool (process_bib.py), checked under Spec.   *)
(***************************************************************************)
\* clean_bib_content has returned
BibCleaned == prog = "process_bib" /\ pc = "persist"

\* the author fields a scan of text locates
AuthorFieldsOf(text) == FoundFields(ProcessRun(text, ProcessStart).log)

\* the file read holds one url field and, outside it, one author field, of
\* eight names
OneUrlAndEightNames ==
    LET urls   == Removed(LocateRun(content, LocateStart).log)
        fields == AuthorFieldsOf(content)
    IN
    /\ Len(urls) = 1
    /\ Len(fields) = 1
    /\ Len(split_authors_top_level(fields[1].value)) = 8
    /\ ~author_already_others(fields[1].value)
    /\ urls[1].end <= fields[1].field_start \/ fields[1].value_end < urls[1].start

\* C7: clean_bib_content removes the url fields first and collapses the
\* author lists of that result second: its text is process_bibtex of the text
\* of strip_url_fields, its two counts are the url count of the first pass and
\* the author count of the second.  For an entry with one url field and one
\* eight-name author field the result holds no "url", the author value is
\* the first author followed by " and others", and the counts are (1, 1).
C7_UrlsThenAuthors ==
    BibCleaned =>
        LET first  == strip_url_fields(content)
            second == process_bibtex(first.text)
        IN
        /\ without_urls = first.text
        /\ urls_removed = first.removed
        /\ new_content = second.new_content
        /\ authors_modified = second.modified_count
        /\ OneUrlAndEightNames =>
              LET before == AuthorFieldsOf(content)
                  after  == AuthorFieldsOf(new_content)
              IN
              /\ urls_removed = 1
              /\ authors_modified = 1
              /\ Find(Lower(new_content), kwUrl, 0) = -1
              /\ Len(after) = 1
              /\ after[1].value = FirstItemAndOthers(before[1].value)
              /\ after[1].delimiter = before[1].delimiter

\* an entry with one url field and one eight-name author field was cleaned
C7_Witness ==
    /\ BibCleaned
    /\ OneUrlAndEightNames
    /\ urls_removed = 1
    /\ authors_modified = 1

\* main returned at the failed read
ReadFailed == stderr # << >> /\ stderr[1].kind = "read error"

\* C9: process_bib.main calls write_text at most once, on the input file,
\* after both passes have returned and with the text the second pass
\* returned; it makes no such call when the read fails or when --dry-run is
\* set, in which case that text goes to standard output; without a call the
\* file stays as it was read.
C9_WriteOnceAfterBothPasses ==
    prog = "process_bib" =>
        /\ Len(writes) <= 1
        /\ writes # << >> =>
              /\ ~dry_run
              /\ pc = "done"
              /\ ~loc.running
              /\ ~proc.running
              /\ writes[1].target = "input"
              /\ writes[1].text = new_content
              /\ new_content = clean_bib_content(content).text
        /\ ReadFailed => writes = << >>
        /\ dry_run => writes = << >>
        /\ (dry_run /\ pc = "done" /\ ~ReadFailed) =>
              stdout[1] = Message("text", new_content, 0, 0)
        /\ (writes = << >> /\ pc # "start" /\ ~ReadFailed) => disk = content

\* the file was written, after a url field was removed and an author list
\* collapsed
C9_Witness ==
    /\ prog = "process_bib"
    /\ Len(writes) = 1
    /\ writes[1].ok
    /\ urls_removed >= 1
    /\ authors_modified >= 1
    /\ disk = new_content

\* the sum of the lengths of the spans
RECURSIVE SpanTotal(_, _)
SpanTotal(spans, k) ==
    IF k = 0 THEN 0 ELSE (spans[k][2] - spans[k][1]) + SpanTotal(spans, k - 1)

\* C11: the spans locate_url_field_ranges returns are non-empty, lie inside
\* the text, and each ends at or before the start of the next, also when a
\* start was moved back to the start of its line; so the overlap guard of
\* strip_url_fields skips none and the count returned is the number of spans
\* deleted.
C11_SpansDisjointIncreasing ==
    prog = "strip_bib_urls" =>
        /\ \A k \in 1..Len(loc.ranges) :
              /\ 0 <= loc.ranges[k][1]
              /\ loc.ranges[k][1] < loc.ranges[k][2]
              /\ loc.ranges[k][2] <= Len(content)
              /\ k > 1 => loc.ranges[k - 1][2] <= loc.ranges[k][1]
        /\ StripReturned =>
              /\ urls_removed = Len(loc.ranges)
              /\ Len(new_content) =
                    Len(content) - SpanTotal(loc.ranges, Len(loc.ranges))

\* two spans were returned, the second with its start moved back to the
\* start of its line, which is where the first ends
C11_Witness ==
    /\ StripReturned
    /\ Len(loc.ranges) = 2
    /\ LET e == Removed(loc.log)[2] IN
       /\ e.start < e.candidate
       /\ e.start = loc.ranges[1][2]

\* the character in front of offset c is alphanumeric or "_"
WordCharBefore(text, c) == c > 0 /\ IsWordChar(At(text, c - 1))

\* the character after the three characters at offset c is alphanumeric or "_"
WordCharAfter(text, c) == c + 3 < Len(text) /\ IsWordChar(At(text, c + 3))

\* C12 as claimed: an occurrence of "url" the search examines is taken as a
\* field name exactly when no alphanumeric character or "_" stands right
\* before it or right after it.
C12_NameBoundaryWordCharsOnly ==
    StripReturned =>
        \A k \in 1..Len(loc.log) :
            LET c == loc.log[k].candidate IN
            (loc.log[k].why # "name") <=>
                (~WordCharBefore(content, c) /\ ~WordCharAfter(content, c))

\* C12 as the code has it: an occurrence of "url" the search examines is
\* taken as a field name exactly when the character right before it, if any,
\* is not alphanumeric, not "_" and not a backslash, and the character right
\* after it, if any, is not alphanumeric and not "_".
C12_NameBoundaryWithBackslash ==
    StripReturned =>
        \A k \in 1..Len(loc.log) :
            LET c == loc.log[k].candidate IN
            (loc.log[k].why # "name") <=>
                /\ ~WordCharBefore(content, c)
                /\ ~(c > 0 /\ At(content, c - 1) = "\\")
                /\ ~WordCharAfter(content, c)

\* the search rejected a "url" for the backslash in front of it, one for a
\* word character after it, and took another as a field name
C12_Witness ==
    /\ StripReturned
    /\ \E k \in 1..Len(loc.log) :
          LET c == loc.log[k].candidate IN
          /\ loc.log[k].why = "name"
          /\ c > 0 /\ At(content, c - 1) = "\\"
          /\ ~WordCharAfter(content, c)
    /\ \E k \in 1..Len(loc.log) : loc.log[k].why = "found"

\* what the bare-value scan knows when it has read the characters of text
\* from start up to, not including, offset j: the brace depth, whether it is
\* inside quotes, and whether a backslash escape is pending
RECURSIVE ScanState(_, _, _)
ScanState(text, start, j) ==
    IF j <= start THEN [depth |-> 0, quoted |-> FALSE, pending |-> FALSE]
    ELSE LET s == ScanState(text, start, j - 1)
             c == At(text, j - 1)
         IN  IF s.quoted
             THEN [depth   |-> s.depth,
                   quoted  |-> ~(c = "\"" /\ ~s.pending),
                   pending |-> c = "\\" /\ ~s.pending]
             ELSE [depth   |-> IF c = "{" THEN s.depth + 1
                               ELSE IF c = "}" THEN s.depth - 1 ELSE s.depth,
                   quoted  |-> c = "\"",
                   pending |-> FALSE]

\* offset j holds a comma or a closing brace at depth 0 outside quotes
TerminatesBare(text, start, j) ==
    /\ At(text, j) \in {",", "}"}
    /\ LET s == ScanState(text, start, j) IN ~s.quoted /\ s.depth = 0

\* the first such offset from start on, the length of the text if there is none
BareEnd(text, start) ==
    LET T == {j \in start..(Len(text) - 1) : TerminatesBare(text, start, j)}
    IN  IF T = {} THEN Len(text)
        ELSE CHOOSE j \in T : \A k \in T : j <= k

\* where the value of the field named at c starts, given "=" follows the name
UrlValueStart(text, c) == SkipSpace(text, SkipSpace(text, c + 3) + 1)

\* the log entry is of a candidate whose value is bare
BareValued(text, e) ==
    /\ e.why \notin {"name", "equals", "novalue"}
    /\ At(text, UrlValueStart(text, e.candidate)) \notin {"{", "\""}

\* C13: for a url field with a bare value, find_value_end returns the offset
\* of the first comma or closing brace that stands at brace depth 0 outside
\* quotes, where a quote after a pending backslash does not close the quotes,
\* and the length of the text when there is none; the field is never given up
\* as unterminated and its span ends where the separators after that offset
\* end.
C13_BareValueEnd ==
    StripReturned =>
        \A k \in 1..Len(loc.log) :
            LET e  == loc.log[k]
                vs == UrlValueStart(content, e.candidate)
            IN  BareValued(content, e) =>
                    /\ find_value_end(content, vs) = BareEnd(content, vs)
                    /\ e.why = "found"
                    /\ LET a == BlanksEnd(content, BareEnd(content, vs))
                           b == IF a < Len(content) /\ At(content, a) = ","
                                THEN BlanksEnd(content, a + 1) ELSE a
                       IN  e.end = b + LineBreakLen(content, b)

\* a bare value that ends at a comma after quotes which an escaped quote did
\* not close and which hold a comma, and a bare value that runs to the end of
\* the text
C13_Witness ==
    /\ StripReturned
    /\ \E k \in 1..Len(loc.log) :
          LET e  == loc.log[k]
              vs == UrlValueStart(content, e.candidate)
              ve == BareEnd(content, vs)
          IN  /\ BareValued(content, e)
              /\ ve < Len(content)
              /\ At(content, ve) = ","
              /\ \E j \in vs..(ve - 1) :
                    /\ At(content, j) = "\""
                    /\ ScanState(content, vs, j).quoted
                    /\ ScanState(content, vs, j).pending
              /\ \E j \in vs..(ve - 1) :
                    At(content, j) = "," /\ ScanState(content, vs, j).quoted

(***************************************************************************)
(* Termination of the two passes, checked under SpecAny: a run of any of   *)
(* the three tools.                                                        *)
(***************************************************************************)
InitAny == InitEtAl \/ InitStrip \/ Init

NextAny == NextEtAl \/ NextStrip \/ Next

SpecAny == InitAny /\ [][NextAny]_vars

Last(seq) == seq[Len(seq)]

\* an iteration of the loop of locate_url_field_ranges either ends the loop,
\* at the end of the text or with no "url" left, or examines a candidate at or
\* after the search offset and moves the offset strictly forward, inside the
\* text: past the first character of a rejected candidate, to the end of the
\* span of an accepted one
UrlSearchAdvances ==
    loc' # loc =>
        IF loc'.running
        THEN LET e == Last(loc'.log) IN
             /\ Len(loc'.log) = Len(loc.log) + 1
             /\ loc.idx <= e.candidate
             /\ loc'.idx = IF e.why = "found" THEN e.end ELSE e.candidate + 1
             /\ loc.idx < loc'.idx
             /\ loc'.idx <= Len(content)
        ELSE \/ loc.idx >= Len(content)
             \/ Find(Lower(content), kwUrl, loc.idx) = -1

\* an iteration of the loop of process_bibtex either ends the loop, because
\* find_next_author_field returned None, or gets a field that starts at or
\* after the search offset and moves the offset strictly forward, to the
\* offset after the closing delimiter of the value
AuthorSearchAdvances ==
    proc' # proc =>
        LET f == Last(proc'.log) IN
        /\ Len(proc'.log) = Len(proc.log) + 1
        /\ IF proc'.running
           THEN /\ f.found
                /\ proc.i <= f.field_start
                /\ f.field_start < f.value_end
                /\ proc'.i = f.value_end + 1
                /\ proc.i < proc'.i
                /\ proc'.i <= Len(ProcessInput)
           ELSE /\ ~f.found
                /\ f.why \in {"nomatch", "novalue", "unterminated"}

\* how far main() is from its return
PcRank ==
    CASE pc = "start"   -> 4
      [] pc = "locate"  -> 3
      [] pc = "process" -> 2
      [] pc = "persist" -> 1
      [] pc = "done"    -> 0

\* how far the search loop being run is from its end: the characters left
\* after the search offset, and one while the loop has not been left
LoopDistance ==
    CASE pc = "locate"  -> Len(content) - loc.idx + (IF loc.running THEN 1 ELSE 0)
      [] pc = "process" -> Len(ProcessInput) - proc.i + (IF proc.running THEN 1 ELSE 0)
      [] OTHER          -> 0

\* a step brings main() nearer to its return or, inside a loop, the loop
\* nearer to its end
DistanceDecreases ==
    \/ PcRank' < PcRank
    \/ PcRank' = PcRank /\ LoopDistance' < LoopDistance

\* a run that has not ended can take a step: a loop is either iterated or
\* left, and outside the loops some statement of main() is enabled
CanStep ==
    CASE pc = "locate"  -> loc.running \in BOOLEAN
      [] pc = "process" -> proc.running \in BOOLEAN
      [] pc = "done"    -> TRUE
      [] OTHER          -> ENABLED NextAny

\* C14: both passes terminate on every input text.  Each iteration of either
\* search loop moves the search offset strictly forward, to candidate + 1, to
\* the span end or to value end + 1, never beyond the end of the text; the
\* distance of the run from its end is a natural number that every step
\* lowers, and a run that has not ended can take a step.
C14_PassesTerminate ==
    /\ [][UrlSearchAdvances /\ AuthorSearchAdvances /\ DistanceDecreases]_vars
    /\ [](LoopDistance \in Nat /\ CanStep)

\* a finished run of the combined tool whose url search accepted a candidate
\* that stood after the search offset and then found no other, and whose
\* author search was given a field and then came to the end of the text
C14_Witness ==
    /\ prog = "process_bib"
    /\ pc = "done"
    /\ Len(loc.log) = 1
    /\ loc.log[1].why = "found"
    /\ loc.log[1].candidate > 0
    /\ loc.idx = loc.log[1].end
    /\ Len(proc.log) = 2
    /\ proc.log[1].found
    /\ proc.i = proc.log[1].value_end + 1
    /\ Last(proc.log).why = "nomatch"

=============================================================================
